---- MODULE Spec2Model ----
(***************************************************************************)
(* The binary probing primitives of the .ptx analysis scripts:             *)
(*   find_marker_strings    (analyze_ptx.py)            SpecMarker         *)
(*   analyze_file_structure (ptx_structure_analyzer.py) SpecAnalyze        *)
(*   compare_files          (ptx_structure_analyzer.py) SpecCompare        *)
(* A file is a record [exists, bytes]; bytes are naturals 0..255, text is  *)
(* a sequence of code points, offsets are 0-based as in the source.        *)
(***************************************************************************)
EXTENDS Integers, Sequences, FiniteSets, TLC

VARIABLES file_path, data, search_terms, term_idx, offset, results,
          i, current_string, strings, potential_markers, windows,
          file1, file2, report, pc, error

vars == <<file_path, data, search_terms, term_idx, offset, results,
          i, current_string, strings, potential_markers, windows,
          file1, file2, report, pc, error>>

markerVars == <<search_terms, term_idx, offset, results>>
analyzeVars == <<i, current_string, strings, potential_markers, windows>>
compareVars == <<file1, file2, report>>

----------------------------------------------------------------------------
(* Bounds of the explored inputs *)

MaxDataLen == 4
MaxTerms == 2
MaxScanLen == 5
MaxWords == 2
MaxSmallLen == 3
MaxCmpLen == 44
MaxDelta == 2

----------------------------------------------------------------------------
(* Python built-ins used by the scripts *)

Min(a, b) == IF a < b THEN a ELSE b

Max(a, b) == IF a > b THEN a ELSE b

\* s[start:end] for 0 <= start: the elements at 0-based indices start..end-1,
\* the upper end clamped to len(s); empty when start >= end.
Slice(s, start, end) == SubSeq(s, start + 1, Min(end, Len(s)))

RECURSIVE Concat(_)
Concat(ss) == IF ss = <<>> THEN <<>> ELSE Head(ss) \o Concat(Tail(ss))

\* A file that opens and reads, and one whose open() raises.
Readable(bytes) == [exists |-> TRUE, bytes |-> bytes]

Missing == [exists |-> FALSE, bytes |-> <<>>]

RECURSIVE SeqsUpTo(_, _)
SeqsUpTo(S, n) ==
    IF n = 0 THEN {<<>>}
    ELSE LET shorter == SeqsUpTo(S, n - 1)
         IN  shorter \cup {Append(s, x) : s \in {t \in shorter : Len(t) = n - 1}, x \in S}

----------------------------------------------------------------------------
(* find_marker_strings *)

\* str.encode('utf-8') of one code point (up to three bytes).
Utf8Char(c) ==
    IF c < 128 THEN <<c>>
    ELSE IF c < 2048 THEN <<192 + (c \div 64), 128 + (c % 64)>>
    ELSE <<224 + (c \div 4096), 128 + ((c \div 64) % 64), 128 + (c % 64)>>

\* str.encode('utf-16le') of one code point of the basic plane: low byte first.
Utf16leChar(c) == <<c % 256, c \div 256>>

EncodeUtf8(term) == Concat([k \in 1..Len(term) |-> Utf8Char(term[k])])

EncodeUtf16le(term) == Concat([k \in 1..Len(term) |-> Utf16leChar(term[k])])

\* bytes.find(sub, start): the lowest index >= start at which sub lies in d,
\* or -1. An empty sub is found at every start <= len(d).
RECURSIVE Find(_, _, _)
Find(d, sub, start) ==
    IF start + Len(sub) > Len(d) THEN -1
    ELSE IF SubSeq(d, start + 1, start + Len(sub)) = sub THEN start
    ELSE Find(d, sub, start + 1)

ContextRadius == 50

\* The record appended for a hit of the encoded term pat at pos.
Occurrence(term, encoding, pat, pos) ==
    LET start == Max(0, pos - ContextRadius)
        end == Min(Len(data), pos + Len(pat) + ContextRadius)
    IN  [term |-> term, encoding |-> encoding, position |-> pos,
         context |-> Slice(data, start, end)]

\* A variant resuming past the end of the hit (no overlapping hits).
NextOffsetPastEnd(pos, pat) == pos + Max(1, Len(pat))

\* offset = pos + 1: the search resumes one byte past the start of the hit.
NextOffset(pos, pat) == pos + 1

\* A variant putting the newest occurrence first.
EmitFront(rs, rec) == <<rec>> \o rs

\* results.append(...)
Emit(rs, rec) == Append(rs, rec)

\* with open(file_path, 'rb') ...: data = f.read(); results = []
\* An exception is caught, printed, and [] is returned.
MarkerOpen ==
    /\ pc = "open"
    /\ IF file_path.exists
       THEN /\ data' = file_path.bytes
            /\ pc' = "for_term"
            /\ error' = FALSE
       ELSE /\ data' = <<>>
            /\ pc' = "done"
            /\ error' = TRUE
    /\ results' = <<>>
    /\ term_idx' = 1
    /\ offset' = 0
    /\ UNCHANGED <<file_path, search_terms, analyzeVars, compareVars>>

\* for term in search_terms: ... offset = 0
ForTerm ==
    /\ pc = "for_term"
    /\ term_idx <= Len(search_terms)
    /\ offset' = 0
    /\ pc' = "utf8"
    /\ UNCHANGED <<file_path, data, search_terms, term_idx, results,
                   analyzeVars, compareVars, error>>

\* One iteration of the first while loop.
FindUtf8 ==
    /\ pc = "utf8"
    /\ LET term == search_terms[term_idx]
           term_bytes == EncodeUtf8(term)
           pos == Find(data, term_bytes, offset)
       IN  IF pos = -1
           THEN /\ offset' = 0
                /\ pc' = "utf16"
                /\ UNCHANGED results
           ELSE /\ results' = Emit(results, Occurrence(term, "UTF-8", term_bytes, pos))
                /\ offset' = NextOffset(pos, term_bytes)
                /\ UNCHANGED pc
    /\ UNCHANGED <<file_path, data, search_terms, term_idx,
                   analyzeVars, compareVars, error>>

\* One iteration of the second while loop.
FindUtf16 ==
    /\ pc = "utf16"
    /\ LET term == search_terms[term_idx]
           term_utf16 == EncodeUtf16le(term)
           pos == Find(data, term_utf16, offset)
       IN  IF pos = -1
           THEN /\ term_idx' = term_idx + 1
                /\ pc' = "for_term"
                /\ UNCHANGED <<results, offset>>
           ELSE /\ results' = Emit(results, Occurrence(term, "UTF-16LE", term_utf16, pos))
                /\ offset' = NextOffset(pos, term_utf16)
                /\ UNCHANGED <<pc, term_idx>>
    /\ UNCHANGED <<file_path, data, search_terms, analyzeVars, compareVars, error>>

\* return results
MarkerReturn ==
    /\ pc = "for_term"
    /\ term_idx > Len(search_terms)
    /\ pc' = "done"
    /\ UNCHANGED <<file_path, data, markerVars, analyzeVars, compareVars, error>>

----------------------------------------------------------------------------
(* Inputs of find_marker_strings *)

\* Buffer bytes: NUL, 'a', and the two bytes of U+00E9 in UTF-8.
MarkerBytes == {0, 97, 169, 195}

\* "a", "aa", U+00E9 and the empty term.
TermPool == {<<97>>, <<97, 97>>, <<233>>, <<>>}

\* Nothing printed yet.
NoReport ==
    [error |-> FALSE, raised |-> FALSE, size1 |-> <<>>, size2 |-> <<>>,
     size_difference |-> <<>>, differences |-> <<>>, extra |-> <<>>]

IdleAnalyze ==
    /\ i = 0
    /\ current_string = <<>>
    /\ strings = <<>>
    /\ potential_markers = <<>>
    /\ windows = <<>>

IdleCompare ==
    /\ file1 = Missing
    /\ file2 = Missing
    /\ report = NoReport

IdleMarker ==
    /\ search_terms = <<>>
    /\ term_idx = 0
    /\ offset = 0
    /\ results = <<>>

InitMarker ==
    /\ file_path \in {Readable(b) : b \in SeqsUpTo(MarkerBytes, MaxDataLen)} \cup {Missing}
    /\ search_terms \in SeqsUpTo(TermPool, MaxTerms)
    /\ data = <<>>
    /\ term_idx = 0
    /\ offset = 0
    /\ results = <<>>
    /\ pc = "open"
    /\ error = FALSE
    /\ IdleAnalyze
    /\ IdleCompare

NextMarker ==
    \/ MarkerOpen
    \/ ForTerm
    \/ FindUtf8
    \/ FindUtf16
    \/ MarkerReturn

SpecMarker == InitMarker /\ [][NextMarker]_vars

----------------------------------------------------------------------------
(* analyze_file_structure: the string scan *)

\* 32 <= byte <= 126
IsPrintable(byte) == 32 <= byte /\ byte <= 126

\* current_string.decode('utf-8') followed by all(ord(c) < 128 ...): bytes
\* below 128 decode to the code points of the same value; a run holding a
\* byte >= 128 either fails to decode or decodes to a code point >= 128, and
\* is skipped both ways.
AsciiLike(bs) == \A k \in DOMAIN bs : bs[k] < 128

MinStringLen == 2

\* A variant keeping runs of 2 bytes too.
FlushShort(strs, cur, at) ==
    IF Len(cur) >= MinStringLen /\ AsciiLike(cur)
    THEN Append(strs, <<at - Len(cur), cur>>)
    ELSE strs

\* The body shared by the null branch and the non-printable branch: the run
\* is appended as (i - len(current_string), decoded) when its length and the
\* length of its decoding exceed 2.
Flush(strs, cur, at) ==
    IF Len(cur) > MinStringLen
    THEN IF AsciiLike(cur) /\ Len(cur) > MinStringLen
         THEN Append(strs, <<at - Len(cur), cur>>)
         ELSE strs
    ELSE strs

\* with open(file_path, 'rb') ...: data = f.read(); strings = []
AnalyzeOpen ==
    /\ pc = "open"
    /\ IF file_path.exists
       THEN /\ data' = file_path.bytes
            /\ pc' = "scan"
            /\ error' = FALSE
       ELSE /\ data' = <<>>
            /\ pc' = "done"
            /\ error' = TRUE
    /\ i' = 0
    /\ current_string' = <<>>
    /\ strings' = <<>>
    /\ UNCHANGED <<file_path, potential_markers, windows, markerVars, compareVars>>

\* One iteration of "for i, byte in enumerate(data)".
ScanByte ==
    /\ pc = "scan"
    /\ i < Len(data)
    /\ LET byte == data[i + 1]
       IN  IF byte = 0
           THEN /\ strings' = Flush(strings, current_string, i)
                /\ current_string' = <<>>
           ELSE IF IsPrintable(byte)
           THEN /\ current_string' = Append(current_string, byte)
                /\ UNCHANGED strings
           ELSE /\ strings' = Flush(strings, current_string, i)
                /\ current_string' = <<>>
    /\ i' = i + 1
    /\ UNCHANGED <<file_path, data, potential_markers, windows, pc, error,
                   markerVars, compareVars>>

\* The loop is exhausted: the strings are printed and the field scan starts.
\* current_string is not looked at again.
ScanEnd ==
    /\ pc = "scan"
    /\ i = Len(data)
    /\ pc' = "fields"
    /\ i' = 0
    /\ potential_markers' = <<>>
    /\ windows' = <<>>
    /\ UNCHANGED <<file_path, data, current_string, strings, error,
                   markerVars, compareVars>>

----------------------------------------------------------------------------
(* analyze_file_structure: the field scan *)

\* The unsigned value of four bytes, lowest first. TLC's integers are
\* 32-bit signed: a value >= 2^31 (top byte >= 128) is held as 2^31 - 1.
\* Every number the scan compares a value with is below 2^31 - 1, so each
\* comparison comes out as on the real value, and only values below
\* 10000000 are ever stored.
Unsigned32(b0, b1, b2, b3) ==
    IF b3 >= 128 THEN 2147483647
    ELSE b0 + 256 * b1 + 65536 * b2 + 16777216 * b3

\* struct.unpack('<I', w)[0] and struct.unpack('>I', w)[0] of a 4-byte window.
UnpackLE(w) == Unsigned32(w[1], w[2], w[3], w[4])

UnpackBE(w) == Unsigned32(w[4], w[3], w[2], w[1])

MaxSamples == 10000000

SampleRate == 44100

MinSeconds == 10

MaxSeconds == 300

\* A variant accepting exactly 10 seconds.
PlausibleClosed(value) ==
    /\ 0 < value /\ value < MaxSamples
    /\ MinSeconds * SampleRate <= value /\ value < MaxSeconds * SampleRate

\* 0 < value < 10000000 and 10 < value / 44100 < 300. The true division is
\* compared exactly here: value / 44100 > 10 iff value > 10 * 44100.
Plausible(value) ==
    /\ 0 < value /\ value < MaxSamples
    /\ MinSeconds * SampleRate < value /\ value < MaxSeconds * SampleRate

\* for value in [value_le, value_be]: ... potential_markers.append((i, value, seconds))
\* seconds = value / 44100 is a function of value and is not kept here.
Candidates(at, w) ==
    LET passed == SelectSeq(<<UnpackLE(w), UnpackBE(w)>>, Plausible)
    IN  [k \in 1..Len(passed) |-> <<at, passed[k]>>]

WindowSize == 4

\* range(0, len(data) - 4, 4): the stop value is exclusive.
InRange(at, n) == at < n - WindowSize

\* One iteration of "for i in range(0, len(data) - 4, 4)".
FieldWindow ==
    /\ pc = "fields"
    /\ InRange(i, Len(data))
    /\ potential_markers' = potential_markers \o Candidates(i, Slice(data, i, i + WindowSize))
    /\ windows' = Append(windows, i)
    /\ i' = i + WindowSize
    /\ UNCHANGED <<file_path, data, current_string, strings, pc, error,
                   markerVars, compareVars>>

FieldEnd ==
    /\ pc = "fields"
    /\ ~InRange(i, Len(data))
    /\ pc' = "done"
    /\ UNCHANGED <<file_path, data, analyzeVars, error, markerVars, compareVars>>

----------------------------------------------------------------------------
(* Inputs of analyze_file_structure *)

\* NUL, the bytes on both sides of each end of the printable band.
ScanBytes == {0, 31, 32, 126, 127}

\* NUL "Hello" NUL "Hi" NUL "World!" NUL
HelloBuffer ==
    <<0, 72, 101, 108, 108, 111, 0, 72, 105, 0, 87, 111, 114, 108, 100, 33, 0>>

\* "ABC" 0xC8 "DEF" LF "G": runs ended by bytes above the printable band.
HighByteBuffer == <<65, 66, 67, 200, 68, 69, 70, 10, 71>>

\* 4-byte windows: 441000, 441001 and 13230000 little-endian, 441001
\* big-endian, a window both byte orders read as 460544, zero, and all ones.
Words ==
    { <<168, 186, 6, 0>>, <<169, 186, 6, 0>>, <<176, 223, 201, 0>>,
      <<0, 6, 186, 169>>, <<0, 7, 7, 0>>, <<0, 0, 0, 0>>, <<255, 255, 255, 255>> }

\* Bytes after the last whole window.
Tails == {<<>>, <<0>>, <<0, 0>>, <<0, 0, 0>>}

FieldBuffers == {Concat(ws) \o t : ws \in SeqsUpTo(Words, MaxWords), t \in Tails}

AnalyzeBuffers == SeqsUpTo(ScanBytes, MaxScanLen) \cup FieldBuffers \cup {HelloBuffer, HighByteBuffer}

InitAnalyze ==
    /\ file_path \in {Readable(b) : b \in AnalyzeBuffers} \cup {Missing}
    /\ data = <<>>
    /\ pc = "open"
    /\ error = FALSE
    /\ IdleAnalyze
    /\ IdleMarker
    /\ IdleCompare

NextAnalyze ==
    \/ AnalyzeOpen
    \/ ScanByte
    \/ ScanEnd
    \/ FieldWindow
    \/ FieldEnd

SpecAnalyze == InitAnalyze /\ [][NextAnalyze]_vars

----------------------------------------------------------------------------
(* compare_files *)

DiffRadius == 20

\* start = max(0, i - 20)
ContextStart(at) == Max(0, at - DiffRadius)

\* A variant whose slice takes in the byte at i + 20.
ContextEndInclusive(at, min_len) == Min(min_len, at + DiffRadius + 1)

\* end = min(min_len, i + 20), the exclusive end of data[start:end]
ContextEnd(at, min_len) == Min(min_len, at + DiffRadius)

\* What is printed for a differing index: the offset and both context slices.
Difference(d1, d2, at, min_len) ==
    [offset |-> at,
     context1 |-> Slice(d1, ContextStart(at), ContextEnd(at, min_len)),
     context2 |-> Slice(d2, ContextStart(at), ContextEnd(at, min_len))]

\* A variant without the break: every differing index is printed.
RECURSIVE DiffLoopNoBreak(_, _, _, _)
DiffLoopNoBreak(d1, d2, at, min_len) ==
    IF at >= min_len THEN <<>>
    ELSE IF d1[at + 1] # d2[at + 1]
         THEN <<Difference(d1, d2, at, min_len)>> \o DiffLoopNoBreak(d1, d2, at + 1, min_len)
         ELSE DiffLoopNoBreak(d1, d2, at + 1, min_len)

\* for i in range(min_len): if data1[i] != data2[i]: print ...; break
\* The sequence of differences printed from index at on.
RECURSIVE DiffLoop(_, _, _, _)
DiffLoop(d1, d2, at, min_len) ==
    IF at >= min_len THEN <<>>
    ELSE IF d1[at + 1] # d2[at + 1]
         THEN <<Difference(d1, d2, at, min_len)>>
         ELSE DiffLoop(d1, d2, at + 1, min_len)

ExtraShown == 50

IsAscii(byte) == byte < 128

\* if len(data2) > len(data1): extra_data = data2[len(data1):]; its length,
\* the first 50 bytes in hex, and the first 50 characters of its ASCII
\* decoding (errors ignored) are printed.
ExtraData(d1, d2) ==
    IF Len(d2) > Len(d1)
    THEN LET extra_data == Slice(d2, Len(d1), Len(d2))
         IN  << [len |-> Len(extra_data),
                 hex |-> Slice(extra_data, 0, ExtraShown),
                 ascii |-> Slice(SelectSeq(extra_data, IsAscii), 0, ExtraShown)] >>
    ELSE <<>>

\* What "except Exception as e: print(...)" leaves: the error message alone.
ErrorReport ==
    [error |-> TRUE, raised |-> FALSE, size1 |-> <<>>, size2 |-> <<>>,
     size_difference |-> <<>>, differences |-> <<>>, extra |-> <<>>]

\* A variant loading each file on its own and printing the size of the one
\* that loaded.
compare_files_partial(f1, f2) ==
    IF f1.exists /\ f2.exists
    THEN [error |-> FALSE, raised |-> FALSE,
          size1 |-> <<Len(f1.bytes)>>, size2 |-> <<Len(f2.bytes)>>,
          size_difference |-> <<Len(f2.bytes) - Len(f1.bytes)>>,
          differences |-> DiffLoop(f1.bytes, f2.bytes, 0, Min(Len(f1.bytes), Len(f2.bytes))),
          extra |-> ExtraData(f1.bytes, f2.bytes)]
    ELSE [ErrorReport EXCEPT
            !.size1 = IF f1.exists THEN <<Len(f1.bytes)>> ELSE <<>>,
            !.size2 = IF f2.exists THEN <<Len(f2.bytes)>> ELSE <<>>]

\* The whole of compare_files: both files are opened in one with statement
\* inside the try block, before anything about either is printed.
compare_files(f1, f2) ==
    IF f1.exists /\ f2.exists
    THEN LET data1 == f1.bytes
             data2 == f2.bytes
             min_len == Min(Len(data1), Len(data2))
         IN  [error |-> FALSE, raised |-> FALSE,
              size1 |-> <<Len(data1)>>, size2 |-> <<Len(data2)>>,
              size_difference |-> <<Len(data2) - Len(data1)>>,
              differences |-> DiffLoop(data1, data2, 0, min_len),
              extra |-> ExtraData(data1, data2)]
    ELSE ErrorReport

Compare ==
    /\ pc = "start"
    /\ report' = compare_files(file1, file2)
    /\ error' = report'.error
    /\ pc' = "done"
    /\ UNCHANGED <<file_path, data, file1, file2, markerVars, analyzeVars>>

----------------------------------------------------------------------------
(* Inputs of compare_files *)

SmallBuffers == SeqsUpTo({1, 2}, MaxSmallLen)

\* Buffers whose bytes name their index, and the same with every byte after
\* the first d changed: the two first differ at index d.
Ramp(n) == [j \in 1..n |-> j]

Changed(n, d) == [j \in 1..n |-> IF j > d THEN j + 100 ELSE j]

LongPairs ==
    { <<Readable(Ramp(n1)), Readable(Changed(n1 + e, d))>> :
        n1 \in MaxDelta..MaxCmpLen, e \in (0 - MaxDelta)..MaxDelta, d \in 0..MaxCmpLen }

SmallPairs == { <<Readable(a), Readable(b)>> : a \in SmallBuffers, b \in SmallBuffers }

ExamplePair == <<Readable(<<1, 2, 3, 4, 5>>), Readable(<<1, 2, 9, 4, 5, 6, 7>>)>>

MissingPairs ==
    {<<Missing, Missing>>}
      \cup { <<Missing, Readable(b)>> : b \in SmallBuffers }
      \cup { <<Readable(a), Missing>> : a \in SmallBuffers }

InitCompare ==
    /\ \E pair \in SmallPairs \cup LongPairs \cup MissingPairs \cup {ExamplePair} :
          /\ file1 = pair[1]
          /\ file2 = pair[2]
    /\ report = NoReport
    /\ file_path = Missing
    /\ data = <<>>
    /\ pc = "start"
    /\ error = FALSE
    /\ IdleMarker
    /\ IdleAnalyze

NextCompare == Compare

SpecCompare == InitCompare /\ [][NextCompare]_vars

----------------------------------------------------------------------------
(* Properties of find_marker_strings, under SpecMarker *)

Range(s) == {s[k] : k \in DOMAIN s}

RECURSIVE Ascending(_)
Ascending(S) ==
    IF S = {} THEN <<>>
    ELSE LET least == CHOOSE x \in S : \A y \in S : x <= y
         IN  <<least>> \o Ascending(S \ {least})

Encodings == {"UTF-8", "UTF-16LE"}

Encoded(term, encoding) ==
    IF encoding = "UTF-8" THEN EncodeUtf8(term) ELSE EncodeUtf16le(term)

\* The byte pattern pat lies in the buffer at offset k.
OccursAt(pat, k) ==
    /\ k + Len(pat) <= Len(data)
    /\ \A j \in 1..Len(pat) : data[k + j] = pat[j]

\* How many occurrences name this term, encoding and position.
Hits(term, encoding, k) ==
    Cardinality({n \in DOMAIN results :
                    /\ results[n].term = term
                    /\ results[n].encoding = encoding
                    /\ results[n].position = k})

\* How many times the caller listed the term.
Listed(term) == Cardinality({n \in DOMAIN search_terms : search_terms[n] = term})

MarkerDone == pc = "done" /\ ~error

\* C1: for every buffer, every listed term and both encodings, the returned
\* occurrences name position k once per listing of the term (exactly once for
\* a one-term list) for every offset k at which the encoded term lies in the
\* buffer, overlapping an earlier hit or not, and name no other position.
C1_ExactOccurrences ==
    MarkerDone =>
        /\ \A n \in DOMAIN results :
              /\ results[n].term \in Range(search_terms)
              /\ results[n].encoding \in Encodings
              /\ results[n].position \in 0..Len(data)
        /\ \A term \in Range(search_terms), encoding \in Encodings, k \in 0..Len(data) :
              Hits(term, encoding, k) =
                  IF OccursAt(Encoded(term, encoding), k) THEN Listed(term) ELSE 0

\* b"aaa" searched for "aa": the two overlapping narrow occurrences at 0 and 1.
C1_Witness ==
    /\ MarkerDone
    /\ data = <<97, 97, 97>>
    /\ search_terms = << <<97, 97>> >>
    /\ Len(results) = 2
    /\ results[1].encoding = "UTF-8" /\ results[1].position = 0
    /\ results[2].encoding = "UTF-8" /\ results[2].position = 1

PositionsOf(term, encoding) ==
    {results[n].position : n \in {m \in DOMAIN results :
                                     /\ results[m].term = term
                                     /\ results[m].encoding = encoding}}

\* The occurrences of one listed term in discovery order: narrow positions
\* ascending, then two-byte positions ascending.
TermBlock(term) ==
    LET narrow == Ascending(PositionsOf(term, "UTF-8"))
        wide == Ascending(PositionsOf(term, "UTF-16LE"))
    IN  [k \in 1..Len(narrow) |-> <<term, "UTF-8", narrow[k]>>]
          \o [k \in 1..Len(wide) |-> <<term, "UTF-16LE", wide[k]>>]

\* C9: the returned sequence is ordered by discovery: the occurrences of an
\* earlier listed term come before those of a later one, within a term the
\* narrow occurrences come before the two-byte ones, and within a term and
\* encoding the positions are strictly ascending.
C9_DiscoveryOrder ==
    MarkerDone =>
        [n \in 1..Len(results) |->
            <<results[n].term, results[n].encoding, results[n].position>>]
          = Concat([t \in 1..Len(search_terms) |-> TermBlock(search_terms[t])])

\* Two different terms, the first found in both encodings (narrow twice), the
\* second found too.
C9_Witness ==
    /\ MarkerDone
    /\ Len(search_terms) = 2
    /\ search_terms[1] # search_terms[2]
    /\ Cardinality(PositionsOf(search_terms[1], "UTF-8")) >= 2
    /\ PositionsOf(search_terms[1], "UTF-16LE") # {}
    /\ PositionsOf(search_terms[2], "UTF-8") # {}

----------------------------------------------------------------------------
(* Properties of the string scan, under SpecAnalyze *)

InBand(byte) == byte >= 32 /\ byte <= 126

\* The scan loop has run over the whole buffer.
ScanDone == pc \in {"fields", "done"} /\ ~error

\* The printable runs of the buffer that cannot be extended: <<a, b>> is the
\* run at 0-based indices a..b-1.
MaximalRuns ==
    { r \in (0..Len(data)) \X (0..Len(data)) :
        /\ r[1] < r[2]
        /\ \A k \in (r[1] + 1)..r[2] : InBand(data[k])
        /\ r[1] = 0 \/ ~InBand(data[r[1]])
        /\ r[2] = Len(data) \/ ~InBand(data[r[2] + 1]) }

\* C3: every emitted string is a run of more than 2 bytes in 32..126 standing
\* in the buffer at its start_offset, a whole maximal run followed by a byte
\* outside the band (so no run of length 1 or 2, nor a part of one, is
\* emitted); the start offsets ascend strictly and no two strings overlap;
\* and every maximal run of more than 2 bytes that is followed by a byte
\* outside the band is emitted.
C3_ExtractedStrings ==
    ScanDone =>
        /\ \A n \in DOMAIN strings :
              LET start == strings[n][1]
                  text == strings[n][2]
              IN  /\ Len(text) > 2
                  /\ \A k \in DOMAIN text : InBand(text[k])
                  /\ start >= 0
                  /\ start + Len(text) < Len(data)
                  /\ SubSeq(data, start + 1, start + Len(text)) = text
                  /\ <<start, start + Len(text)>> \in MaximalRuns
        /\ \A n \in 1..(Len(strings) - 1) :
              /\ strings[n][1] < strings[n + 1][1]
              /\ strings[n][1] + Len(strings[n][2]) <= strings[n + 1][1]
        /\ \A r \in MaximalRuns :
              (r[2] - r[1] > 2 /\ r[2] < Len(data))
                  => <<r[1], SubSeq(data, r[1] + 1, r[2])>> \in Range(strings)

\* NUL "Hello" NUL "Hi" NUL "World!" NUL gives "Hello" at 1 and "World!" at 10.
C3_Witness ==
    /\ pc = "done"
    /\ data = HelloBuffer
    /\ strings = << <<1, <<72, 101, 108, 108, 111>>>>,
                    <<10, <<87, 111, 114, 108, 100, 33>>>> >>

\* C4: a printable run of more than 2 bytes that reaches the end of the
\* buffer is emitted with its start offset, like a run ended by a byte.
C4_FlushOnEnd ==
    ScanDone =>
        \A r \in MaximalRuns :
            (r[2] - r[1] > 2 /\ r[2] = Len(data))
                => <<r[1], SubSeq(data, r[1] + 1, r[2])>> \in Range(strings)

----------------------------------------------------------------------------
(* Properties of the field scan, under SpecAnalyze *)

FieldsDone == pc = "done" /\ ~error

\* C5: the windows evaluated are those at the offsets 0, 4, 8, ... that are
\* <= length - 4, the offset length - 4 included when it is a multiple of 4.
C5_EveryAlignedWindow ==
    FieldsDone =>
        windows = Ascending({k \in 0..(Len(data) - 4) : k % 4 = 0})

\* 0 < value < 10,000,000 and 10 < value / 44100 < 300
Retained(value) ==
    /\ 0 < value /\ value < 10000000
    /\ 441000 < value /\ value < 13230000

\* The candidates of the window at an offset: the little-endian reading if
\* it is retained, then the big-endian reading if it is retained.
ExpectedAt(at) ==
    LET w == SubSeq(data, at + 1, at + 4)
    IN  (IF Retained(UnpackLE(w)) THEN << <<at, UnpackLE(w)>> >> ELSE <<>>)
          \o (IF Retained(UnpackBE(w)) THEN << <<at, UnpackBE(w)>> >> ELSE <<>>)

\* C6: at every window the scan evaluates, each of the two readings is kept
\* if and only if 0 < value < 10,000,000 and 10 < value/44100 < 300, the
\* little-endian one first, both when both pass even if they are equal; the
\* candidates are those of the evaluated windows and nothing else.
C6_PlausibilityFilter ==
    FieldsDone =>
        potential_markers = Concat([n \in 1..Len(windows) |-> ExpectedAt(windows[n])])

\* A window both byte orders read as 460544 gives two equal candidates, and
\* 441001 is kept; 441000 and 13230000 are not.
C6_Witness ==
    /\ FieldsDone
    /\ data = <<0, 7, 7, 0, 169, 186, 6, 0, 0>>
    /\ windows = <<0, 4>>
    /\ potential_markers = << <<0, 460544>>, <<0, 460544>>, <<4, 441001>> >>

----------------------------------------------------------------------------
(* Properties of compare_files, under SpecCompare *)

CompareDone == pc = "done" /\ ~report.error

\* The indices below both lengths at which the two buffers differ.
DifferingIndices ==
    {k \in 0..(Min(Len(file1.bytes), Len(file2.bytes)) - 1) :
        file1.bytes[k + 1] # file2.bytes[k + 1]}

\* C2: a first-difference offset is reported if and only if the buffers
\* differ at some index below both lengths; it is the only one reported and
\* is the least such index; comparing a buffer with itself reports a size
\* difference of 0 and no difference offset.
C2_FirstDifference ==
    CompareDone =>
        /\ Len(report.differences) <= 1
        /\ (report.differences # <<>>) <=> (DifferingIndices # {})
        /\ \A n \in DOMAIN report.differences :
              /\ report.differences[n].offset \in DifferingIndices
              /\ \A k \in DifferingIndices : report.differences[n].offset <= k
        /\ (file1.bytes = file2.bytes) =>
              /\ report.size_difference = <<0>>
              /\ report.differences = <<>>

\* [1,2,3,4,5] against [1,2,9,4,5,6,7]: offset 2, size difference 2.
C2_Witness ==
    /\ CompareDone
    /\ file1.bytes = <<1, 2, 3, 4, 5>>
    /\ file2.bytes = <<1, 2, 9, 4, 5, 6, 7>>
    /\ Len(report.differences) = 1
    /\ report.differences[1].offset = 2
    /\ report.size_difference = <<2>>

\* C7: when the sizes differ, the trailing bytes of the larger buffer beyond
\* the shorter one's length are reported with their full length, whichever
\* buffer is the larger; when the sizes are equal none are reported.
C7_TrailingExtraOfLarger ==
    CompareDone =>
        LET a == file1.bytes
            b == file2.bytes
            larger == IF Len(a) > Len(b) THEN a ELSE b
            shorter == Min(Len(a), Len(b))
        IN  IF Len(a) # Len(b)
            THEN /\ Len(report.extra) = 1
                 /\ report.extra[1].len = Len(larger) - shorter
                 /\ report.extra[1].hex = SubSeq(larger, shorter + 1, Len(larger))
            ELSE report.extra = <<>>

ExactlyOneMissing == file1.exists # file2.exists

\* C8 as claimed: with exactly one file failing to load, the failure is
\* reported as an error without raising and the size of the file that did
\* load is still reported.
C8_SizeOfLoadedFile ==
    (pc = "done" /\ ExactlyOneMissing) =>
        /\ report.error
        /\ ~report.raised
        /\ file1.exists => report.size1 = <<Len(file1.bytes)>>
        /\ file2.exists => report.size2 = <<Len(file2.bytes)>>

\* C8 as amended: with exactly one file failing to load, the failure is
\* reported as an error without raising, and nothing else is reported:
\* neither size, no size difference, no difference offset, no trailing bytes.
C8_ErrorOnly ==
    (pc = "done" /\ ExactlyOneMissing) =>
        /\ report.error
        /\ ~report.raised
        /\ report.size1 = <<>>
        /\ report.size2 = <<>>
        /\ report.size_difference = <<>>
        /\ report.differences = <<>>
        /\ report.extra = <<>>

\* The first file loads and is not empty, the second is missing.
C8_Witness ==
    /\ pc = "done"
    /\ file1.exists
    /\ Len(file1.bytes) > 0
    /\ ~file2.exists
    /\ report.error

\* C10 as claimed: the context recorded from each buffer covers its indices
\* max(0, i-20) through min(len-1, i+20), clamped to that buffer's own length.
C10_ContextOwnBounds ==
    CompareDone =>
        \A n \in DOMAIN report.differences :
            LET at == report.differences[n].offset
                a == file1.bytes
                b == file2.bytes
            IN  /\ report.differences[n].context1
                     = SubSeq(a, Max(0, at - 20) + 1, Min(Len(a) - 1, at + 20) + 1)
                /\ report.differences[n].context2
                     = SubSeq(b, Max(0, at - 20) + 1, Min(Len(b) - 1, at + 20) + 1)

\* C10 as amended: the context recorded from each buffer covers indices
\* max(0, i-20) through min(min(size_a, size_b), i+20) - 1 of that buffer: up
\* to 20 bytes before the differing byte, that byte, and up to 19 bytes after
\* it, the upper end clamped to the shorter buffer's length for both.
C10_ContextHalfOpen ==
    CompareDone =>
        \A n \in DOMAIN report.differences :
            LET at == report.differences[n].offset
                a == file1.bytes
                b == file2.bytes
                last == Min(Min(Len(a), Len(b)), at + 20) - 1
            IN  /\ report.differences[n].context1 = SubSeq(a, Max(0, at - 20) + 1, last + 1)
                /\ report.differences[n].context2 = SubSeq(b, Max(0, at - 20) + 1, last + 1)

\* A difference more than 20 bytes into buffers of different lengths, with
\* more than 20 bytes after it in both: a 40-byte context from each.
C10_Witness ==
    /\ CompareDone
    /\ Len(file1.bytes) # Len(file2.bytes)
    /\ Len(report.differences) = 1
    /\ report.differences[1].offset > 20
    /\ report.differences[1].offset + 20 < Min(Len(file1.bytes), Len(file2.bytes))
    /\ Len(report.differences[1].context1) = 40
    /\ Len(report.differences[1].context2) = 40

====
